---- MODULE Spec2Model ----
(***************************************************************************)
(* The Web MIDI backend of midir (src/src/backend/webmidi/mod.rs): the     *)
(* thread-local Static singleton with its two DeviceSet tables, the input  *)
(* session MidiInput / MidiInputConnection with its delivery closure, and  *)
(* the output session MidiOutput / MidiOutputConnection.  The browser      *)
(* (MidiAccess, MidiPort objects, the promise of requestMIDIAccess and the *)
(* midimessage events) is the environment.                                 *)
(***************************************************************************)
EXTENDS Integers, Sequences, FiniteSets, TLC

\* ------------------------------------------------------------------ bounds
NumInputDevices  == 2    \* distinct input devices the browser can expose
NumOutputDevices == 2    \* distinct output devices the browser can expose
NumSessions      == 2    \* input session handles held by the caller
MaxDeliveries    == 2    \* midimessage events fired over a run
MaxSends         == 2    \* MidiOutputConnection::send calls over a run

InputIds    == 1..NumInputDevices
OutputIds   == 1..NumOutputDevices
Sessions    == 1..NumSessions
\* Heap cells for delivery closures: one per live connection plus one per
\* port whose handler may still name a destroyed closure.
ClosureIds  == 1..(NumSessions + NumInputDevices)

\* Option<T>: None is the empty tuple, Some(x) the one-element tuple.
None    == << >>
Some(x) == << x >>

VARIABLES
    STATIC,          \* the thread-local Static
    midi_inputs,     \* MidiAccess.inputs(): the browser's input map, in iteration order
    midi_outputs,    \* MidiAccess.outputs()
    onmidimessage,   \* per input port object: the registered handler (0 = null)
    in_open,         \* input port objects on which open() was requested
    out_port,        \* per output port object: "closed" / "open"
    sent,            \* byte strings accepted by MIDIOutput.send, per output port
    in_sess,         \* the caller's input handles: MidiInput / MidiInputConnection
    out_sess,        \* the caller's output handle: MidiOutput / MidiOutputConnection
    closures,        \* the delivery closures created by MidiInput::connect
    user_data,       \* the Arc<Mutex<Option<T>>> cells created by MidiInput::connect
    invoked,         \* per closure: the invocations of the user callback, in order
    supplied,        \* per closure: the data supplied to the connect that made it
    delivered,       \* number of midimessage events fired so far
    nsends,          \* number of send calls so far
    ret              \* the last call or event and what it returned

vars == << STATIC, midi_inputs, midi_outputs, onmidimessage, in_open, out_port,
           sent, in_sess, out_sess, closures, user_data, invoked, supplied,
           delivered, nsends, ret >>

backend_vars == << midi_inputs, midi_outputs >>
port_vars    == << onmidimessage, in_open, out_port, sent >>
input_vars   == << in_sess, closures, user_data, invoked, supplied >>
count_vars   == << delivered, nsends >>

\* ------------------------------------------------------- browser objects
\* A MidiPort object of the browser.  The number d stands for the id string.
id(device) == device

\* MidiPort.name(): some devices report no name.
name(device) == IF device % 2 = 1 THEN Some(device + 100) ELSE None

unwrap_or_else(opt, default) == IF opt = None THEN default ELSE opt[1]

\* ------------------------------------------------------------- DeviceSet
DeviceSet_new == [ slot_lookup |-> << >>, name_lookup |-> << >> ]

\* A found_one that reads the length of the list after the push.
found_one_slot_after_push(self, device) ==
    IF id(device) \notin DOMAIN self.slot_lookup
    THEN LET pushed == Append(self.name_lookup, device)
             slot   == Len(pushed)
         IN  [ slot_lookup |-> self.slot_lookup @@ (id(device) :> slot),
               name_lookup |-> pushed ]
    ELSE self

\* A found_one that files the device again although its id is known.
found_one_again(self, device) ==
    LET slot == Len(self.name_lookup)
    IN  [ slot_lookup |-> (id(device) :> slot) @@ self.slot_lookup,
          name_lookup |-> Append(self.name_lookup, device) ]

found_one(self, device) ==
    IF id(device) \notin DOMAIN self.slot_lookup
    THEN LET slot == Len(self.name_lookup)
         IN  [ slot_lookup |-> self.slot_lookup @@ (id(device) :> slot),
               name_lookup |-> Append(self.name_lookup, device) ]
    ELSE self

RECURSIVE found_map(_, _)
found_map(self, map) ==
    IF map = << >> THEN self
    ELSE found_map(found_one(self, Head(map)), Tail(map))

list(self) == self.name_lookup

len(self) == Cardinality(DOMAIN self.slot_lookup)

\* The element of a slice at a zero-based index.
at(slice, i) == slice[i + 1]

\* ----------------------------------------------------------------- Static
Platforms == { "no_window", "unsupported", "webmidi" }

request_midi_access(self, platform) ==
    LET s == [ self EXCEPT !.ever_requested = TRUE ]
    IN  IF s.access # None THEN s
        ELSE IF s.request # None THEN s
        ELSE IF platform = "no_window" THEN s
        ELSE IF platform = "unsupported" THEN s
        ELSE [ s EXCEPT !.request = Some("promise") ]

Static_new(platform) ==
    request_midi_access(
        [ access         |-> None,
          request        |-> None,
          ever_requested |-> FALSE,
          input_set      |-> DeviceSet_new,
          output_set     |-> DeviceSet_new ],
        platform)

\* A refresh that reads the browser's list without looking at the access.
refresh_inputs_without_access(self) ==
    [ self EXCEPT !.input_set = found_map(@, midi_inputs) ]

\* A refresh that indexes the browser's current list from scratch.
refresh_inputs_rescan(self) ==
    IF self.access = None THEN self
    ELSE [ self EXCEPT !.input_set = found_map(DeviceSet_new, midi_inputs) ]

refresh_inputs(self) ==
    IF self.access = None THEN self
    ELSE [ self EXCEPT !.input_set = found_map(@, midi_inputs) ]

refresh_outputs(self) ==
    IF self.access = None THEN self
    ELSE [ self EXCEPT !.output_set = found_map(@, midi_outputs) ]

\* ----------------------------------------------------------------- Ignore
\* The Ignore bitset: Sysex, Time and ActiveSense and their unions.
Ignore_None        == 0
Ignore_Sysex       == 1
Ignore_Time        == 2
Ignore_ActiveSense == 4
Ignore_All         == 7
IgnoreValues       == 0..7

Bit(n, b) == (n \div b) % 2 = 1

contains(self, other) ==
    \E b \in { Ignore_Sysex, Ignore_Time, Ignore_ActiveSense } :
        Bit(self, b) /\ Bit(other, b)

\* ------------------------------------------------- calls and their results
Ret(op, who, this, args, kind, session, value) ==
    [ op |-> op, who |-> who, this |-> this, args |-> args,
      kind |-> kind, session |-> session, value |-> value ]

\* What ret holds after a step of the browser that is not a call.
Event == Ret("event", 0, None, << >>, "Ok", None, None)

\* ------------------------------------------------------------ user values
\* The caller's context T is a list of messages and the caller's callback
\* pushes each message it is given.
callback(time, message, data) == Append(data, message)

Datas == { << >>, << << 144 >> >> }

\* ------------------------------------------------------------------- Init
MidiInput_new  == [ tag |-> "MidiInput", ignore_flags |-> Ignore_None ]
MidiOutput_new == [ tag |-> "MidiOutput" ]

NoClosure == [ alive |-> FALSE, ignore_flags |-> Ignore_None, user_data |-> 0 ]

InitWith(platforms, inputs, outputs) ==
    /\ \E platform \in platforms : STATIC = Static_new(platform)
    /\ midi_inputs = inputs
    /\ midi_outputs = outputs
    /\ onmidimessage = [ p \in InputIds |-> 0 ]
    /\ in_open = { }
    /\ out_port = [ p \in OutputIds |-> "closed" ]
    /\ sent = [ p \in OutputIds |-> << >> ]
    /\ in_sess = [ s \in Sessions |-> MidiInput_new ]
    /\ out_sess = MidiOutput_new
    /\ closures = [ k \in ClosureIds |-> NoClosure ]
    /\ user_data = [ k \in ClosureIds |-> None ]
    /\ invoked = [ k \in ClosureIds |-> << >> ]
    /\ supplied = [ k \in ClosureIds |-> None ]
    /\ delivered = 0
    /\ nsends = 0
    /\ ret = Ret("new", 0, None, << >>, "Ok", None, None)

\* ------------------------------------------------- the access promise
\* A grant callback that stores the access and leaves the request pending.
on_ok_keep_request ==
    /\ STATIC.request # None
    /\ STATIC' = [ STATIC EXCEPT !.access = Some("MidiAccess") ]
    /\ ret' = Event
    /\ UNCHANGED << backend_vars, port_vars, input_vars, out_sess, count_vars >>

on_ok ==
    /\ STATIC.request # None
    /\ STATIC' = [ STATIC EXCEPT !.request = None, !.access = Some("MidiAccess") ]
    /\ ret' = Event
    /\ UNCHANGED << backend_vars, port_vars, input_vars, out_sess, count_vars >>

on_err ==
    /\ STATIC.request # None
    /\ STATIC' = [ STATIC EXCEPT !.request = None ]
    /\ ret' = Event
    /\ UNCHANGED << backend_vars, port_vars, input_vars, out_sess, count_vars >>

\* ------------------------------------------------- devices come and go
Without(seq, d) == SelectSeq(seq, LAMBDA x : x # d)

InSeq(seq, d) == \E i \in 1..Len(seq) : seq[i] = d

input_attached(d) ==
    /\ ~InSeq(midi_inputs, d)
    /\ midi_inputs' = Append(midi_inputs, d)
    /\ ret' = Event
    /\ UNCHANGED << STATIC, midi_outputs, port_vars, input_vars, out_sess, count_vars >>

input_detached(d) ==
    /\ InSeq(midi_inputs, d)
    /\ midi_inputs' = Without(midi_inputs, d)
    /\ ret' = Event
    /\ UNCHANGED << STATIC, midi_outputs, port_vars, input_vars, out_sess, count_vars >>

output_attached(d) ==
    /\ ~InSeq(midi_outputs, d)
    /\ midi_outputs' = Append(midi_outputs, d)
    /\ ret' = Event
    /\ UNCHANGED << STATIC, midi_inputs, port_vars, input_vars, out_sess, count_vars >>

output_detached(d) ==
    /\ InSeq(midi_outputs, d)
    /\ midi_outputs' = Without(midi_outputs, d)
    /\ ret' = Event
    /\ UNCHANGED << STATIC, midi_inputs, port_vars, input_vars, out_sess, count_vars >>

\* -------------------------------------------------------------- MidiInput
MidiInput_ignore(s, flags) ==
    /\ in_sess[s].tag = "MidiInput"
    /\ in_sess' = [ in_sess EXCEPT ![s].ignore_flags = flags ]
    /\ ret' = Ret("MidiInput::ignore", s, None, << flags >>, "Ok", None, None)
    /\ UNCHANGED << STATIC, backend_vars, port_vars, closures, user_data,
                    invoked, supplied, out_sess, count_vars >>

\* A port_count that refreshes the output table along with the input table.
MidiInput_port_count_both(s) ==
    /\ in_sess[s].tag = "MidiInput"
    /\ STATIC' = refresh_outputs(refresh_inputs(STATIC))
    /\ ret' = Ret("MidiInput::port_count", s, None, << >>, "Ok",
                  None, Some(len(STATIC'.input_set)))
    /\ UNCHANGED << backend_vars, port_vars, input_vars, out_sess, count_vars >>

MidiInput_port_count(s) ==
    /\ in_sess[s].tag = "MidiInput"
    /\ STATIC' = refresh_inputs(STATIC)
    /\ ret' = Ret("MidiInput::port_count", s, None, << >>, "Ok",
                  None, Some(len(STATIC'.input_set)))
    /\ UNCHANGED << backend_vars, port_vars, input_vars, out_sess, count_vars >>

\* A range check that is off by one and turns the last port away.
MidiInput_port_name_off_by_one(s, port_number) ==
    /\ in_sess[s].tag = "MidiInput"
    /\ IF port_number + 1 >= len(STATIC.input_set)
       THEN ret' = Ret("MidiInput::port_name", s, None, << port_number >>,
                       "PortNumberOutOfRange", None, None)
       ELSE LET input == at(list(STATIC.input_set), port_number)
            IN  ret' = Ret("MidiInput::port_name", s, None, << port_number >>,
                           "Ok", None, Some(unwrap_or_else(name(input), id(input))))
    /\ UNCHANGED << STATIC, backend_vars, port_vars, input_vars, out_sess, count_vars >>

MidiInput_port_name(s, port_number) ==
    /\ in_sess[s].tag = "MidiInput"
    /\ IF port_number >= len(STATIC.input_set)
       THEN ret' = Ret("MidiInput::port_name", s, None, << port_number >>,
                       "PortNumberOutOfRange", None, None)
       ELSE LET input == at(list(STATIC.input_set), port_number)
            IN  ret' = Ret("MidiInput::port_name", s, None, << port_number >>,
                           "Ok", None, Some(unwrap_or_else(name(input), id(input))))
    /\ UNCHANGED << STATIC, backend_vars, port_vars, input_vars, out_sess, count_vars >>

\* A heap cell is free when no closure lives in it and no port's handler names it.
Free(k) == ~closures[k].alive /\ \A p \in InputIds : onmidimessage[p] # k

FreeCells(s) == { k \in ClosureIds : Free(k) /\ (k = s \/ k > NumSessions) }

\* The cell Closure::wrap allocates for the closure of handle s.
Closure_wrap(s) == CHOOSE k \in FreeCells(s) : \A j \in FreeCells(s) : k <= j

ConnectError_new(kind, inner) == [ kind |-> kind, inner |-> inner ]

\* A connect whose error carries a newly made session instead of the caller's.
MidiInput_connect_fresh(s, port_number, data) ==
    /\ in_sess[s].tag = "MidiInput"
    /\ FreeCells(s) # { }
    /\ LET self == in_sess[s]
       IN  IF port_number >= len(STATIC.input_set)
           THEN LET err == ConnectError_new("PortNumberOutOfRange", MidiInput_new)
                IN  /\ in_sess' = [ in_sess EXCEPT ![s] = err.inner ]
                    /\ ret' = Ret("MidiInput::connect", s, Some(self), << port_number, data >>,
                                  err.kind, Some(err.inner), None)
                    /\ UNCHANGED << onmidimessage, in_open, closures, user_data,
                                    invoked, supplied >>
           ELSE LET input        == at(list(STATIC.input_set), port_number)
                    ignore_flags == self.ignore_flags
                    k            == Closure_wrap(s)
                IN  /\ in_open' = in_open \cup { input }
                    /\ user_data' = [ user_data EXCEPT ![k] = Some(data) ]
                    /\ closures' = [ closures EXCEPT ![k] =
                           [ alive |-> TRUE, ignore_flags |-> ignore_flags, user_data |-> k ] ]
                    /\ onmidimessage' = [ onmidimessage EXCEPT ![input] = k ]
                    /\ in_sess' = [ in_sess EXCEPT ![s] =
                           [ tag |-> "MidiInputConnection", ignore_flags |-> ignore_flags,
                             input |-> input, user_data |-> k, closure |-> k ] ]
                    /\ invoked' = [ invoked EXCEPT ![k] = << >> ]
                    /\ supplied' = [ supplied EXCEPT ![k] = Some(data) ]
                    /\ ret' = Ret("MidiInput::connect", s, Some(self), << port_number, data >>,
                                  "Ok", None, Some(k))
    /\ UNCHANGED << STATIC, backend_vars, out_port, sent, out_sess, count_vars >>

MidiInput_connect(s, port_number, data) ==
    /\ in_sess[s].tag = "MidiInput"
    /\ FreeCells(s) # { }
    /\ LET self == in_sess[s]
       IN  IF port_number >= len(STATIC.input_set)
           THEN LET err == ConnectError_new("PortNumberOutOfRange", self)
                IN  /\ in_sess' = [ in_sess EXCEPT ![s] = err.inner ]
                    /\ ret' = Ret("MidiInput::connect", s, Some(self), << port_number, data >>,
                                  err.kind, Some(err.inner), None)
                    /\ UNCHANGED << onmidimessage, in_open, closures, user_data,
                                    invoked, supplied >>
           ELSE LET input        == at(list(STATIC.input_set), port_number)
                    ignore_flags == self.ignore_flags
                    k            == Closure_wrap(s)
                IN  /\ in_open' = in_open \cup { input }
                    /\ user_data' = [ user_data EXCEPT ![k] = Some(data) ]
                    /\ closures' = [ closures EXCEPT ![k] =
                           [ alive |-> TRUE, ignore_flags |-> ignore_flags, user_data |-> k ] ]
                    /\ onmidimessage' = [ onmidimessage EXCEPT ![input] = k ]
                    /\ in_sess' = [ in_sess EXCEPT ![s] =
                           [ tag |-> "MidiInputConnection", ignore_flags |-> ignore_flags,
                             input |-> input, user_data |-> k, closure |-> k ] ]
                    /\ invoked' = [ invoked EXCEPT ![k] = << >> ]
                    /\ supplied' = [ supplied EXCEPT ![k] = Some(data) ]
                    /\ ret' = Ret("MidiInput::connect", s, Some(self), << port_number, data >>,
                                  "Ok", None, Some(k))
    /\ UNCHANGED << STATIC, backend_vars, out_port, sent, out_sess, count_vars >>

\* ------------------------------------------------- the delivery closure
\* A test that files the timing clock 0xF8 under ActiveSense.
suppressed_f8_active(status, ignore_flags) ==
    \/ status = 240 /\ contains(ignore_flags, Ignore_Sysex)
    \/ status = 241 /\ contains(ignore_flags, Ignore_Time)
    \/ status = 248 /\ contains(ignore_flags, Ignore_ActiveSense)
    \/ status = 254 /\ contains(ignore_flags, Ignore_ActiveSense)

\* A test that has lost its line for the timing clock 0xF8.
suppressed_no_f8(status, ignore_flags) ==
    \/ status = 240 /\ contains(ignore_flags, Ignore_Sysex)
    \/ status = 241 /\ contains(ignore_flags, Ignore_Time)
    \/ status = 254 /\ contains(ignore_flags, Ignore_ActiveSense)

\* A test that files sysex start 0xF0 under Time.
suppressed_f0_time(status, ignore_flags) ==
    \/ status = 240 /\ contains(ignore_flags, Ignore_Time)
    \/ status = 241 /\ contains(ignore_flags, Ignore_Time)
    \/ status = 248 /\ contains(ignore_flags, Ignore_Time)
    \/ status = 254 /\ contains(ignore_flags, Ignore_ActiveSense)

\* The test of the closure on the first byte of the message.
suppressed(status, ignore_flags) ==
    \/ status = 240 /\ contains(ignore_flags, Ignore_Sysex)
    \/ status = 241 /\ contains(ignore_flags, Ignore_Time)
    \/ status = 248 /\ contains(ignore_flags, Ignore_Time)
    \/ status = 254 /\ contains(ignore_flags, Ignore_ActiveSense)

\* What one run of closure k on an event does: "panic", "suppressed" or "invoked".
closure_outcome(k, data) ==
    IF data = None THEN "panic"
    ELSE LET buffer == data[1]
         IN  IF Len(buffer) = 0 THEN "panic"
             ELSE IF suppressed(buffer[1], closures[k].ignore_flags) THEN "suppressed"
             ELSE IF user_data[closures[k].user_data] = None THEN "panic"
             ELSE "invoked"

\* A delivery that hands the callback a copy of the data, so that what the
\* callback does to it is lost.
midimessage_copy(p, time_stamp, data) ==
    /\ delivered < MaxDeliveries
    /\ p \in in_open
    /\ InSeq(midi_inputs, p)
    /\ delivered' = delivered + 1
    /\ LET k == onmidimessage[p]
       IN  IF k = 0
           THEN /\ ret' = Ret("midimessage", 0, None, << p, time_stamp, data >>,
                              "no_handler", None, None)
                /\ UNCHANGED << user_data, invoked >>
           ELSE IF ~closures[k].alive
           THEN /\ ret' = Ret("midimessage", k, None, << p, time_stamp, data >>,
                              "destroyed", None, None)
                /\ UNCHANGED << user_data, invoked >>
           ELSE LET time    == time_stamp * 1000
                    outcome == closure_outcome(k, data)
                    cell    == closures[k].user_data
                IN  IF outcome = "invoked"
                    THEN /\ UNCHANGED user_data
                         /\ invoked' = [ invoked EXCEPT ![k] = Append(@, << time, data[1] >>) ]
                         /\ ret' = Ret("midimessage", k, None, << p, time_stamp, data >>,
                                       outcome, None, Some(<< time, data[1] >>))
                    ELSE /\ ret' = Ret("midimessage", k, None, << p, time_stamp, data >>,
                                       outcome, None, None)
                         /\ UNCHANGED << user_data, invoked >>
    /\ UNCHANGED << STATIC, backend_vars, port_vars, in_sess, closures, supplied,
                    out_sess, nsends >>

\* The browser fires a midimessage event on input port p.
midimessage(p, time_stamp, data) ==
    /\ delivered < MaxDeliveries
    /\ p \in in_open
    /\ InSeq(midi_inputs, p)
    /\ delivered' = delivered + 1
    /\ LET k == onmidimessage[p]
       IN  IF k = 0
           THEN /\ ret' = Ret("midimessage", 0, None, << p, time_stamp, data >>,
                              "no_handler", None, None)
                /\ UNCHANGED << user_data, invoked >>
           ELSE IF ~closures[k].alive
           THEN /\ ret' = Ret("midimessage", k, None, << p, time_stamp, data >>,
                              "destroyed", None, None)
                /\ UNCHANGED << user_data, invoked >>
           ELSE LET time    == time_stamp * 1000
                    outcome == closure_outcome(k, data)
                    cell    == closures[k].user_data
                IN  IF outcome = "invoked"
                    THEN /\ user_data' = [ user_data EXCEPT ![cell] =
                                Some(callback(time, data[1], user_data[cell][1])) ]
                         /\ invoked' = [ invoked EXCEPT ![k] = Append(@, << time, data[1] >>) ]
                         /\ ret' = Ret("midimessage", k, None, << p, time_stamp, data >>,
                                       outcome, None, Some(<< time, data[1] >>))
                    ELSE /\ ret' = Ret("midimessage", k, None, << p, time_stamp, data >>,
                                       outcome, None, None)
                         /\ UNCHANGED << user_data, invoked >>
    /\ UNCHANGED << STATIC, backend_vars, port_vars, in_sess, closures, supplied,
                    out_sess, nsends >>

\* ---------------------------------------------------- MidiInputConnection
\* A close that returns a newly made MidiInput instead of one with the
\* connection's filter setting.
MidiInputConnection_close_reset(s) ==
    /\ in_sess[s].tag = "MidiInputConnection"
    /\ LET self == in_sess[s]
       IN  /\ onmidimessage' = [ onmidimessage EXCEPT ![self.input] = 0 ]
           /\ user_data' = [ user_data EXCEPT ![self.user_data] = None ]
           /\ closures' = [ closures EXCEPT ![self.closure] = NoClosure ]
           /\ in_sess' = [ in_sess EXCEPT ![s] = MidiInput_new ]
           /\ ret' = IF user_data[self.user_data] = None
                     THEN Ret("MidiInputConnection::close", s, Some(self), << >>,
                              "panic", None, None)
                     ELSE Ret("MidiInputConnection::close", s, Some(self), << >>, "Ok",
                              Some(MidiInput_new), Some(user_data[self.user_data][1]))
           /\ invoked' = [ invoked EXCEPT ![self.closure] = << >> ]
           /\ supplied' = [ supplied EXCEPT ![self.closure] = None ]
    /\ UNCHANGED << STATIC, backend_vars, in_open, out_port, sent, out_sess, count_vars >>

\* A close that hands back a copy of the data and forgets the connection: the
\* handler stays registered and the closure and the data stay alive.
MidiInputConnection_close_forget(s) ==
    /\ in_sess[s].tag = "MidiInputConnection"
    /\ LET self == in_sess[s]
       IN  /\ in_sess' = [ in_sess EXCEPT ![s] =
                  [ tag |-> "MidiInput", ignore_flags |-> self.ignore_flags ] ]
           /\ ret' = Ret("MidiInputConnection::close", s, Some(self), << >>, "Ok",
                         Some([ tag |-> "MidiInput", ignore_flags |-> self.ignore_flags ]),
                         Some(user_data[self.user_data][1]))
    /\ UNCHANGED << STATIC, backend_vars, port_vars, closures, user_data, invoked,
                    supplied, out_sess, count_vars >>

MidiInputConnection_close(s) ==
    /\ in_sess[s].tag = "MidiInputConnection"
    /\ LET self == in_sess[s]
       IN  /\ onmidimessage' = [ onmidimessage EXCEPT ![self.input] = 0 ]
           /\ user_data' = [ user_data EXCEPT ![self.user_data] = None ]
           /\ closures' = [ closures EXCEPT ![self.closure] = NoClosure ]
           /\ in_sess' = [ in_sess EXCEPT ![s] =
                  [ tag |-> "MidiInput", ignore_flags |-> self.ignore_flags ] ]
           /\ ret' = IF user_data[self.user_data] = None
                     THEN Ret("MidiInputConnection::close", s, Some(self), << >>,
                              "panic", None, None)
                     ELSE Ret("MidiInputConnection::close", s, Some(self), << >>, "Ok",
                              Some([ tag |-> "MidiInput", ignore_flags |-> self.ignore_flags ]),
                              Some(user_data[self.user_data][1]))
           /\ invoked' = [ invoked EXCEPT ![self.closure] = << >> ]
           /\ supplied' = [ supplied EXCEPT ![self.closure] = None ]
    /\ UNCHANGED << STATIC, backend_vars, in_open, out_port, sent, out_sess, count_vars >>

\* The connection goes out of scope without close: its fields are dropped.
MidiInputConnection_drop(s) ==
    /\ in_sess[s].tag = "MidiInputConnection"
    /\ LET self == in_sess[s]
       IN  /\ user_data' = [ user_data EXCEPT ![self.user_data] = None ]
           /\ closures' = [ closures EXCEPT ![self.closure] = NoClosure ]
           /\ in_sess' = [ in_sess EXCEPT ![s] = [ tag |-> "dropped" ] ]
           /\ invoked' = [ invoked EXCEPT ![self.closure] = << >> ]
           /\ supplied' = [ supplied EXCEPT ![self.closure] = None ]
           /\ ret' = Ret("MidiInputConnection::drop", s, None, << >>, "Ok", None, None)
    /\ UNCHANGED << STATIC, backend_vars, port_vars, out_sess, count_vars >>

\* ------------------------------------------------------------- MidiOutput
MidiOutput_port_count ==
    /\ out_sess.tag = "MidiOutput"
    /\ STATIC' = refresh_outputs(STATIC)
    /\ ret' = Ret("MidiOutput::port_count", 0, None, << >>, "Ok",
                  None, Some(len(STATIC'.output_set)))
    /\ UNCHANGED << backend_vars, port_vars, input_vars, out_sess, count_vars >>

MidiOutput_port_name(port_number) ==
    /\ out_sess.tag = "MidiOutput"
    /\ IF port_number >= len(STATIC.output_set)
       THEN ret' = Ret("MidiOutput::port_name", 0, None, << port_number >>,
                       "PortNumberOutOfRange", None, None)
       ELSE LET output == at(list(STATIC.output_set), port_number)
            IN  ret' = Ret("MidiOutput::port_name", 0, None, << port_number >>,
                           "Ok", None, Some(unwrap_or_else(name(output), id(output))))
    /\ UNCHANGED << STATIC, backend_vars, port_vars, input_vars, out_sess, count_vars >>

\* A connect that refreshes the table when the port number is out of range.
MidiOutput_connect_refresh(port_number) ==
    /\ out_sess.tag = "MidiOutput"
    /\ LET self == out_sess
       IN  IF port_number >= len(STATIC.output_set)
           THEN LET err == ConnectError_new("PortNumberOutOfRange", self)
                IN  /\ STATIC' = refresh_outputs(STATIC)
                    /\ out_sess' = err.inner
                    /\ ret' = Ret("MidiOutput::connect", 0, Some(self), << port_number >>,
                                  err.kind, Some(err.inner), None)
                    /\ UNCHANGED out_port
           ELSE LET output == at(list(STATIC.output_set), port_number)
                IN  /\ out_port' = [ out_port EXCEPT ![output] = "open" ]
                    /\ out_sess' = [ tag |-> "MidiOutputConnection", output |-> output ]
                    /\ ret' = Ret("MidiOutput::connect", 0, Some(self), << port_number >>,
                                  "Ok", None, Some(output))
                    /\ UNCHANGED STATIC
    /\ UNCHANGED << backend_vars, onmidimessage, in_open, sent, input_vars, count_vars >>

\* A connect that takes the port number for the number of the device.
MidiOutput_connect_by_number(port_number) ==
    /\ out_sess.tag = "MidiOutput"
    /\ LET self == out_sess
       IN  IF port_number >= len(STATIC.output_set)
           THEN LET err == ConnectError_new("PortNumberOutOfRange", self)
                IN  /\ out_sess' = err.inner
                    /\ ret' = Ret("MidiOutput::connect", 0, Some(self), << port_number >>,
                                  err.kind, Some(err.inner), None)
                    /\ UNCHANGED out_port
           ELSE LET output == port_number + 1
                IN  /\ out_port' = [ out_port EXCEPT ![output] = "open" ]
                    /\ out_sess' = [ tag |-> "MidiOutputConnection", output |-> output ]
                    /\ ret' = Ret("MidiOutput::connect", 0, Some(self), << port_number >>,
                                  "Ok", None, Some(output))
    /\ UNCHANGED << STATIC, backend_vars, onmidimessage, in_open, sent, input_vars,
                    count_vars >>

MidiOutput_connect(port_number) ==
    /\ out_sess.tag = "MidiOutput"
    /\ LET self == out_sess
       IN  IF port_number >= len(STATIC.output_set)
           THEN LET err == ConnectError_new("PortNumberOutOfRange", self)
                IN  /\ out_sess' = err.inner
                    /\ ret' = Ret("MidiOutput::connect", 0, Some(self), << port_number >>,
                                  err.kind, Some(err.inner), None)
                    /\ UNCHANGED out_port
           ELSE LET output == at(list(STATIC.output_set), port_number)
                IN  /\ out_port' = [ out_port EXCEPT ![output] = "open" ]
                    /\ out_sess' = [ tag |-> "MidiOutputConnection", output |-> output ]
                    /\ ret' = Ret("MidiOutput::connect", 0, Some(self), << port_number >>,
                                  "Ok", None, Some(output))
    /\ UNCHANGED << STATIC, backend_vars, onmidimessage, in_open, sent, input_vars,
                    count_vars >>

\* --------------------------------------------------- MidiOutputConnection
MidiOutputConnection_close ==
    /\ out_sess.tag = "MidiOutputConnection"
    /\ out_port' = [ out_port EXCEPT ![out_sess.output] = "closed" ]
    /\ out_sess' = MidiOutput_new
    /\ ret' = Ret("MidiOutputConnection::close", 0, Some(out_sess), << >>, "Ok",
                  Some(MidiOutput_new), None)
    /\ UNCHANGED << STATIC, backend_vars, onmidimessage, in_open, sent, input_vars,
                    count_vars >>

\* A send that tries once more when the browser throws, and gets through.
MidiOutputConnection_send_retry(message, accepted) ==
    /\ out_sess.tag = "MidiOutputConnection"
    /\ nsends < MaxSends
    /\ nsends' = nsends + 1
    /\ sent' = [ sent EXCEPT ![out_sess.output] = Append(@, message) ]
    /\ out_port' = [ out_port EXCEPT ![out_sess.output] = "open" ]
    /\ ret' = Ret("MidiOutputConnection::send", 0, Some(out_sess), << message >>,
                  "Ok", None, None)
    /\ UNCHANGED << STATIC, backend_vars, onmidimessage, in_open, input_vars, out_sess,
                    delivered >>

\* accepted: whether MIDIOutput.send of the browser takes the bytes or throws.
MidiOutputConnection_send(message, accepted) ==
    /\ out_sess.tag = "MidiOutputConnection"
    /\ nsends < MaxSends
    /\ nsends' = nsends + 1
    /\ IF accepted
       THEN /\ sent' = [ sent EXCEPT ![out_sess.output] = Append(@, message) ]
            /\ out_port' = [ out_port EXCEPT ![out_sess.output] = "open" ]
            /\ ret' = Ret("MidiOutputConnection::send", 0, Some(out_sess), << message >>,
                          "Ok", None, None)
       ELSE /\ ret' = Ret("MidiOutputConnection::send", 0, Some(out_sess), << message >>,
                          "Other", None, Some("JavaScript exception"))
            /\ UNCHANGED << sent, out_port >>
    /\ UNCHANGED << STATIC, backend_vars, onmidimessage, in_open, input_vars, out_sess,
                    delivered >>

\* ========================================================= specifications
AllInputs == [ i \in InputIds |-> i ]

InputPortNumbers  == 0..NumInputDevices
OutputPortNumbers == 0..NumOutputDevices

\* --- Spec: the input sessions on a browser that exposes every input device.
Data       == << << 144 >> >>
Messages   == { << 144, 60 >>, << 248 >> }
TimeStamps == { 1 }

Init == InitWith({ "webmidi" }, AllInputs, << >>)

Next ==
    \/ on_ok
    \/ \E s \in Sessions : MidiInput_port_count(s)
    \/ \E s \in Sessions, i \in InputPortNumbers : MidiInput_connect(s, i, Data)
    \/ \E p \in InputIds, t \in TimeStamps, m \in Messages : midimessage(p, t, Some(m))
    \/ \E s \in Sessions : MidiInputConnection_close(s)
    \/ \E s \in Sessions : MidiInputConnection_drop(s)

Spec == Init /\ [][Next]_vars

\* --- SpecFilter: one input session, every filter setting, every kind of event.
FilterMessages ==
    { << >>, << 240 >>, << 240, 1, 247 >>, << 241, 2 >>, << 248 >>, << 254 >>,
      << 144, 240 >> }
FilterEvents     == { None } \cup { Some(m) : m \in FilterMessages }
FilterTimeStamps == { 0, 2 }

NextFilter ==
    \/ on_ok
    \/ MidiInput_port_count(1)
    \/ \E flags \in IgnoreValues : MidiInput_ignore(1, flags)
    \/ \E i \in InputPortNumbers : MidiInput_connect(1, i, << >>)
    \/ \E p \in InputIds, t \in FilterTimeStamps, e \in FilterEvents : midimessage(p, t, e)
    \/ MidiInputConnection_close(1)

SpecFilter == Init /\ [][NextFilter]_vars

\* --- SpecTables: the two port tables while devices come and go.
InitPorts == InitWith(Platforms, << >>, << >>)

NextTables ==
    \/ on_ok
    \/ on_err
    \/ \E d \in InputIds : input_attached(d)
    \/ \E d \in InputIds : input_detached(d)
    \/ \E d \in OutputIds : output_attached(d)
    \/ \E d \in OutputIds : output_detached(d)
    \/ MidiInput_port_count(1)
    \/ \E i \in InputPortNumbers : MidiInput_port_name(1, i)
    \/ MidiOutput_port_count
    \/ \E i \in OutputPortNumbers : MidiOutput_port_name(i)

SpecTables == InitPorts /\ [][NextTables]_vars

\* --- SpecPorts: one input and one output session while devices are plugged
\* in one after the other.  A device that goes away changes the browser's list
\* only, which port_name, connect and close never read.
Flags == { Ignore_None, Ignore_Time }

NextPorts ==
    \/ on_ok
    \/ on_err
    \/ \E d \in InputIds : input_attached(d)
    \/ \E d \in OutputIds : output_attached(d)
    \/ \E flags \in Flags : MidiInput_ignore(1, flags)
    \/ MidiInput_port_count(1)
    \/ \E i \in InputPortNumbers : MidiInput_port_name(1, i)
    \/ \E i \in InputPortNumbers, data \in Datas : MidiInput_connect(1, i, data)
    \/ MidiInputConnection_close(1)
    \/ MidiOutput_port_count
    \/ \E i \in OutputPortNumbers : MidiOutput_port_name(i)
    \/ \E i \in OutputPortNumbers : MidiOutput_connect(i)
    \/ MidiOutputConnection_close

SpecPorts == InitPorts /\ [][NextPorts]_vars

\* --- SpecOutput: the output session on a browser that exposes every output device.
AllOutputs == [ i \in OutputIds |-> i ]

OutMessages == { << 144, 60, 100 >>, << 128, 60, 0 >>, << 240, 1, 247 >> }

InitOutput == InitWith({ "webmidi" }, << >>, AllOutputs)

NextOutput ==
    \/ on_ok
    \/ MidiOutput_port_count
    \/ \E i \in OutputPortNumbers : MidiOutput_port_name(i)
    \/ \E i \in OutputPortNumbers : MidiOutput_connect(i)
    \/ \E m \in OutMessages, accepted \in BOOLEAN : MidiOutputConnection_send(m, accepted)
    \/ MidiOutputConnection_close

SpecOutput == InitOutput /\ [][NextOutput]_vars

\* --- SpecRoute: two input sessions and the output session on a browser that lists its
\* devices from the highest number down, so that no port number is the number
\* of its device.  Only the first input session asks for counts and names.
Reversed(seq) == [ i \in 1..Len(seq) |-> seq[Len(seq) + 1 - i] ]

RouteSessions == { 1, 2 }
RouteMessages == { << 144, 60, 100 >> }

InitRoute == InitWith({ "webmidi" }, Reversed(AllInputs), Reversed(AllOutputs))

NextRoute ==
    \/ on_ok
    \/ MidiInput_port_count(1)
    \/ \E i \in InputPortNumbers : MidiInput_port_name(1, i)
    \/ \E s \in RouteSessions, i \in InputPortNumbers : MidiInput_connect(s, i, << >>)
    \/ \E s \in RouteSessions : MidiInputConnection_close(s)
    \/ MidiOutput_port_count
    \/ \E i \in OutputPortNumbers : MidiOutput_port_name(i)
    \/ \E i \in OutputPortNumbers : MidiOutput_connect(i)
    \/ \E m \in RouteMessages, accepted \in BOOLEAN : MidiOutputConnection_send(m, accepted)
    \/ MidiOutputConnection_close

SpecRoute == InitRoute /\ [][NextRoute]_vars

\* --- SpecAccess: one input and one output session on every platform, with
\* every device attached, whether the access is granted, rejected or never
\* asked for.
AccessEvents == { Some(<< 144, 60 >>) }

InitAccess == InitWith(Platforms, AllInputs, AllOutputs)

NextAccess ==
    \/ on_ok
    \/ on_err
    \/ MidiInput_port_count(1)
    \/ \E i \in InputPortNumbers : MidiInput_port_name(1, i)
    \/ \E i \in InputPortNumbers : MidiInput_connect(1, i, << >>)
    \/ \E p \in InputIds, t \in TimeStamps, e \in AccessEvents : midimessage(p, t, e)
    \/ MidiInputConnection_close(1)
    \/ MidiOutput_port_count
    \/ \E i \in OutputPortNumbers : MidiOutput_port_name(i)
    \/ \E i \in OutputPortNumbers : MidiOutput_connect(i)
    \/ MidiOutputConnection_close

SpecAccess == InitAccess /\ [][NextAccess]_vars

\* ================================================================= claims
\* The connection that owns closure k, if there is one.
Owns(s, k) == in_sess[s].tag = "MidiInputConnection" /\ in_sess[s].closure = k

\* C1: after close() on a connected input session has returned, the callback
\* supplied to that session's connect is never invoked again: in every step in
\* which a callback is invoked, the closure holding it belongs to a connection
\* that is open before the step and still open, unchanged, after it; and the
\* step that closes a connection leaves no handler on its port.
C1_NoCallbackAfterClose ==
    [][ /\ \A k \in ClosureIds :
              Len(invoked'[k]) > Len(invoked[k]) =>
                  \E s \in Sessions : Owns(s, k) /\ in_sess'[s] = in_sess[s]
        /\ \A s \in Sessions :
              (in_sess[s].tag = "MidiInputConnection" /\ in_sess'[s].tag = "MidiInput") =>
                  onmidimessage'[in_sess[s].input] = 0 ]_vars

\* C1 witness: an event is fired on a port that was connected and then closed
\* by a session that is now unconnected again, and nobody is called.
C1_Witness ==
    /\ ret.op = "midimessage"
    /\ ret.kind = "no_handler"
    /\ ret.args[1] \in in_open
    /\ \A s \in Sessions : in_sess[s].tag = "MidiInput"

\* C2: however a connected input session is destroyed, no port is left with a
\* registered handler whose closure and context have been released.
C2_NoDanglingSink ==
    \A p \in InputIds : onmidimessage[p] # 0 => closures[onmidimessage[p]].alive

\* C3: every event the browser fires on the port of a live connection, whose
\* first byte the connection's filter does not suppress, invokes the callback
\* of that connection exactly once, for every live connection on that port.
C3_EveryLiveConnectionIsCalled ==
    [][ (ret'.op = "midimessage" /\ delivered' = delivered + 1) =>
            \A s \in Sessions :
                ( /\ in_sess[s].tag = "MidiInputConnection"
                  /\ in_sess[s].input = ret'.args[1]
                  /\ ~suppressed(ret'.args[3][1][1], in_sess[s].ignore_flags) )
                => Len(invoked'[in_sess[s].closure]) = Len(invoked[in_sess[s].closure]) + 1
      ]_vars

\* The candidates of a discovery that the table has not seen, in discovery order.
Unseen(map, set) == SelectSeq(map, LAMBDA d : id(d) \notin DOMAIN set.slot_lookup)

GrowsOnly(old, new, map) ==
    /\ Len(new.name_lookup) >= Len(old.name_lookup)
    /\ SubSeq(new.name_lookup, 1, Len(old.name_lookup)) = old.name_lookup
    /\ \A d \in DOMAIN old.slot_lookup :
          d \in DOMAIN new.slot_lookup /\ new.slot_lookup[d] = old.slot_lookup[d]
    /\ len(new) >= len(old)
    /\ new.name_lookup # old.name_lookup =>
          new.name_lookup = old.name_lookup \o Unseen(map, old)

\* C4: whatever the browser lists from one refresh to the next, the index of an
\* identity never changes once assigned, new identities are appended at the end
\* in discovery order, and port_count() never decreases.
C4_IndicesAreStable ==
    [][ /\ GrowsOnly(STATIC.input_set, STATIC'.input_set, midi_inputs)
        /\ GrowsOnly(STATIC.output_set, STATIC'.output_set, midi_outputs)
        /\ ret'.op = "MidiInput::port_count" => ret'.value[1] >= len(STATIC.input_set)
        /\ ret'.op = "MidiOutput::port_count" => ret'.value[1] >= len(STATIC.output_set)
      ]_vars

\* C4 witness: port_count() has refreshed a table that holds device 2 before
\* device 1 while the browser lists device 1 only.
C4_Witness ==
    /\ ret.op = "MidiInput::port_count"
    /\ STATIC.input_set.name_lookup = << 2, 1 >>
    /\ midi_inputs = << 1 >>

RangeChecked(size) ==
    IF ret.args[1] >= size THEN ret.kind = "PortNumberOutOfRange" ELSE ret.kind = "Ok"

\* C5: for input and output alike, port_name(i) and connect(i) return
\* PortNumberOutOfRange exactly when i is at or above the size of the table and
\* succeed for every i below it.
C5_RangeCheck ==
    /\ ret.op \in { "MidiInput::port_name", "MidiInput::connect" } =>
          RangeChecked(Len(STATIC.input_set.name_lookup))
    /\ ret.op \in { "MidiOutput::port_name", "MidiOutput::connect" } =>
          RangeChecked(Len(STATIC.output_set.name_lookup))

\* C5 witness: port_name(1) has succeeded on a table of two input ports.
C5_Witness ==
    /\ ret.op = "MidiInput::port_name"
    /\ ret.kind = "Ok"
    /\ ret.args[1] = 1
    /\ Len(STATIC.input_set.name_lookup) = 2

\* C6 as claimed: a connect that fails with PortNumberOutOfRange hands back the
\* session it was called on, unchanged, and for input the context it was given.
C6_SessionAndContextHandedBack ==
    /\ (ret.op = "MidiInput::connect" /\ ret.kind = "PortNumberOutOfRange") =>
          ret.session = ret.this /\ ret.value = Some(ret.args[2])
    /\ (ret.op = "MidiOutput::connect" /\ ret.kind = "PortNumberOutOfRange") =>
          ret.session = ret.this

\* C6 amended: a connect that fails with PortNumberOutOfRange hands back the
\* session it was called on, with the same filter setting, and nothing else:
\* the context given to an input connect is not in the error.
C6_SessionHandedBack ==
    /\ (ret.op = "MidiInput::connect" /\ ret.kind = "PortNumberOutOfRange") =>
          /\ ret.session = ret.this
          /\ in_sess[ret.who] = ret.this[1]
          /\ ret.value = None
    /\ (ret.op = "MidiOutput::connect" /\ ret.kind = "PortNumberOutOfRange") =>
          /\ ret.session = ret.this
          /\ out_sess = ret.this[1]

\* C6 witness: a connect with a non-empty context has failed on a session that
\* filters Time.
C6_Witness ==
    /\ ret.op = "MidiInput::connect"
    /\ ret.kind = "PortNumberOutOfRange"
    /\ ret.this[1].ignore_flags = Ignore_Time
    /\ ret.args[2] # << >>

\* The data after the callback has run on each of the calls, in order.
RECURSIVE ApplyAll(_, _)
ApplyAll(data, calls) ==
    IF calls = << >> THEN data
    ELSE ApplyAll(callback(Head(calls)[1], Head(calls)[2], data), Tail(calls))

\* C7: close() returns the context supplied at connect after the mutations of
\* exactly the callback invocations of that connection, in delivery order; with
\* no invocation it returns the supplied context.
C7_ContextRoundTrip ==
    [][ \A s \in Sessions :
            (in_sess[s].tag = "MidiInputConnection" /\ in_sess'[s].tag = "MidiInput") =>
                /\ ret'.kind = "Ok"
                /\ ret'.value = Some(ApplyAll(supplied[in_sess[s].closure][1],
                                              invoked[in_sess[s].closure])) ]_vars

\* C7 witness: close() has returned a context of three messages: the one it
\* was supplied with and the two deliveries of the run.
C7_Witness ==
    /\ ret.op = "MidiInputConnection::close"
    /\ ret.kind = "Ok"
    /\ ret.value = Some(<< << 144 >>, << 248 >>, << 144, 60 >> >>)

\* The last step was an event with a first byte, run by a live delivery closure.
SinkRan ==
    /\ ret.op = "midimessage"
    /\ ret.kind \notin { "no_handler", "destroyed" }
    /\ ret.args[3] # None
    /\ Len(ret.args[3][1]) > 0

EventMessage == ret.args[3][1]
EventStatus  == EventMessage[1]
EventTime    == ret.args[2] * 1000
SinkFlags    == closures[ret.who].ignore_flags

\* C8 as claimed: the sink suppresses a message iff its first byte is 0xF0,
\* 0xF1 or 0xFE and the flag Sysex, Time or ActiveSense, in that order, is set;
\* any other first byte reaches the callback.
C8_ThreeBytes ==
    SinkRan =>
        LET drop == \/ EventStatus = 240 /\ Bit(SinkFlags, Ignore_Sysex)
                    \/ EventStatus = 241 /\ Bit(SinkFlags, Ignore_Time)
                    \/ EventStatus = 254 /\ Bit(SinkFlags, Ignore_ActiveSense)
        IN  ret.kind = IF drop THEN "suppressed" ELSE "invoked"

\* C8 amended: the sink suppresses a message iff its first byte is 0xF0, 0xF1,
\* 0xF8 or 0xFE and the flag Sysex, Time, Time or ActiveSense, in that order,
\* is set; any other first byte reaches the callback.
C8_FourBytes ==
    SinkRan =>
        LET drop == \/ EventStatus = 240 /\ Bit(SinkFlags, Ignore_Sysex)
                    \/ EventStatus \in { 241, 248 } /\ Bit(SinkFlags, Ignore_Time)
                    \/ EventStatus = 254 /\ Bit(SinkFlags, Ignore_ActiveSense)
        IN  ret.kind = IF drop THEN "suppressed" ELSE "invoked"

\* C8 witness: the sink of a session that ignores Time only has suppressed a
\* message that starts with 0xF8.
C8_Witness ==
    /\ SinkRan
    /\ EventStatus = 248
    /\ SinkFlags = Ignore_Time
    /\ ret.kind = "suppressed"

\* C9 as claimed: the message [0xF8] invokes the callback, with [0xF8], when
\* ActiveSense is unset and invokes nothing when ActiveSense is set.
C9_ClockUnderActiveSense ==
    (SinkRan /\ EventMessage = << 248 >>) =>
        IF Bit(SinkFlags, Ignore_ActiveSense)
        THEN ret.kind = "suppressed"
        ELSE ret.kind = "invoked" /\ ret.value = Some(<< EventTime, << 248 >> >>)

\* C9 amended: the message [0xF8] handed to the sink of a connected input
\* invokes the callback, with [0xF8], when Time is unset and invokes nothing
\* when Time is set.
C9_ClockUnderTime ==
    (SinkRan /\ EventMessage = << 248 >>) =>
        IF Bit(SinkFlags, Ignore_Time)
        THEN ret.kind = "suppressed"
        ELSE ret.kind = "invoked" /\ ret.value = Some(<< EventTime, << 248 >> >>)

\* C9 witness: the callback of a session that ignores ActiveSense only has
\* been invoked with [0xF8].
C9_Witness ==
    /\ SinkRan
    /\ EventMessage = << 248 >>
    /\ SinkFlags = Ignore_ActiveSense
    /\ ret.kind = "invoked"

\* C10: a message that starts with 0xF0 and is handed to the sink of a
\* connection never invokes the callback if the session had Sysex set when it
\* connected, and invokes it exactly once, with the bytes as they came, if it
\* had Sysex clear, whatever the bytes after the first are.
C10_SysexFilter ==
    [][ \A s \in Sessions, p \in InputIds, t \in FilterTimeStamps, m \in FilterMessages :
            ( /\ midimessage(p, t, Some(m))
              /\ Owns(s, onmidimessage[p])
              /\ Len(m) > 0
              /\ m[1] = 240 )
            => LET k == in_sess[s].closure
               IN  IF Bit(in_sess[s].ignore_flags, Ignore_Sysex)
                   THEN invoked' = invoked
                   ELSE invoked' = [ invoked EXCEPT ![k] = Append(@, << t * 1000, m >>) ]
      ]_vars

\* C10 witness: the callback of a session that ignores Time and ActiveSense
\* has been invoked with the sysex message [0xF0, 1, 0xF7].
C10_Witness ==
    /\ SinkRan
    /\ EventMessage = << 240, 1, 247 >>
    /\ SinkFlags = Ignore_Time + Ignore_ActiveSense
    /\ ret.kind = "invoked"
    /\ ret.value = Some(<< EventTime, << 240, 1, 247 >> >>)

\* C11: no event the browser fires on a port with a live delivery closure makes
\* the closure panic, be it an event without data or a message of zero bytes,
\* and close() never panics on a connection.
C11_NoPanic ==
    ret.op \in { "midimessage", "MidiInputConnection::close" } => ret.kind # "panic"

\* C12: once access is granted, port_count() returns the number of ports the
\* browser exposes at the time of the call, after any attachments and removals
\* of devices, for input and output alike.
C12_CountIsCurrent ==
    STATIC.access # None =>
        /\ ret.op = "MidiInput::port_count" => ret.value = Some(Len(midi_inputs))
        /\ ret.op = "MidiOutput::port_count" => ret.value = Some(Len(midi_outputs))

\* C13: the MidiInput that close() returns carries the filter setting the
\* session had when connect was called: connect copies the setting of the
\* session into the connection and into its delivery closure, close copies it
\* from the connection into the session it returns, and so the closure of a
\* second connect filters as the closure of the first did.
C13_FilterCarriedForward ==
    [][ \A s \in Sessions :
            /\ (in_sess[s].tag = "MidiInput" /\ in_sess'[s].tag = "MidiInputConnection") =>
                  /\ in_sess'[s].ignore_flags = in_sess[s].ignore_flags
                  /\ closures'[in_sess'[s].closure].ignore_flags = in_sess[s].ignore_flags
            /\ (in_sess[s].tag = "MidiInputConnection" /\ in_sess'[s].tag = "MidiInput") =>
                  /\ in_sess'[s].ignore_flags = closures[in_sess[s].closure].ignore_flags
                  /\ ret'.session = Some(in_sess'[s])
            /\ in_sess[s].tag = "MidiInputConnection" =>
                  closures[in_sess[s].closure].ignore_flags = in_sess[s].ignore_flags
      ]_vars

\* C13 witness: after events were delivered to an earlier connection, the
\* session is connected again and its closure ignores Sysex and ActiveSense.
C13_Witness ==
    /\ ret.op = "MidiInput::connect"
    /\ ret.kind = "Ok"
    /\ delivered > 0
    /\ ret.this[1].ignore_flags = Ignore_Sysex + Ignore_ActiveSense
    /\ closures[ret.value[1]].ignore_flags = Ignore_Sysex + Ignore_ActiveSense

\* C14: send(message) on an output connection hands exactly the bytes of message,
\* once, to the send of the connected port and to no other port; it returns Ok
\* iff the browser takes the bytes and SendError::Other iff it throws, in which
\* case nothing is handed over a second time; either way the connection stays
\* as it was, connected to the same port.
C14_SendForwardsOnce ==
    [][ \A m \in OutMessages, accepted \in BOOLEAN :
            MidiOutputConnection_send(m, accepted) =>
                /\ ret'.kind = (IF accepted THEN "Ok" ELSE "Other")
                /\ sent' = IF accepted
                           THEN [ sent EXCEPT ![out_sess.output] = Append(@, m) ]
                           ELSE sent
                /\ out_sess' = out_sess
                /\ out_sess'.tag = "MidiOutputConnection"
      ]_vars

\* C14 witness: a send the browser took has come after a send it threw on, on
\* the same connection.
C14_Witness ==
    /\ ret.op = "MidiOutputConnection::send"
    /\ ret.kind = "Ok"
    /\ nsends = 2
    /\ \E p \in OutputIds : sent[p] = << ret.args[1] >>

\* C15: a connect(i) that succeeds asks the browser to open the port stored at
\* index i of the table; an input connect registers its delivery closure on
\* that port and touches the handler of no other port; the sends and the close
\* of an output connection go to the port its connect opened and to no other.
C15_ConnectOpensIndexed ==
    [][ /\ (ret'.op = "MidiInput::connect" /\ ret'.kind = "Ok") =>
              LET s     == ret'.who
                  input == STATIC.input_set.name_lookup[ret'.args[1] + 1]
              IN  /\ in_open' = in_open \cup { input }
                  /\ in_sess'[s].tag = "MidiInputConnection"
                  /\ in_sess'[s].input = input
                  /\ closures'[in_sess'[s].closure].alive
                  /\ onmidimessage' =
                        [ onmidimessage EXCEPT ![input] = in_sess'[s].closure ]
        /\ (ret'.op = "MidiOutput::connect" /\ ret'.kind = "Ok") =>
              LET output == STATIC.output_set.name_lookup[ret'.args[1] + 1]
              IN  /\ out_port' = [ out_port EXCEPT ![output] = "open" ]
                  /\ out_sess'.tag = "MidiOutputConnection"
                  /\ out_sess'.output = output
        /\ nsends' = nsends + 1 =>
              /\ out_sess' = out_sess
              /\ \A p \in OutputIds \ { out_sess.output } : sent'[p] = sent[p]
              /\ ret'.kind = "Ok" =>
                    sent'[out_sess.output] = Append(sent[out_sess.output], ret'.args[1])
        /\ (out_sess.tag = "MidiOutputConnection" /\ out_sess'.tag = "MidiOutput") =>
              out_port' = [ out_port EXCEPT ![out_sess.output] = "closed" ]
      ]_vars

\* C15 witness: on tables that hold device 2 at index 0 and device 1 at index
\* 1, the input and the output session were connected with port number 1; the
\* closure is registered on input device 1 only and a send has reached output
\* device 1 only.
C15_Witness ==
    /\ STATIC.input_set.name_lookup = << 2, 1 >>
    /\ STATIC.output_set.name_lookup = << 2, 1 >>
    /\ in_sess[1].tag = "MidiInputConnection"
    /\ in_sess[1].input = 1
    /\ onmidimessage[1] = in_sess[1].closure
    /\ onmidimessage[2] = 0
    /\ in_open = { 1 }
    /\ ret.op = "MidiOutputConnection::send"
    /\ ret.this[1].output = 1
    /\ sent[1] = << ret.args[1] >>
    /\ sent[2] = << >>
    /\ out_port[2] = "closed"

\* Every list of at most n devices, in any order, drawn from the set ids.
Lists(ids, n) == UNION { [ 1..m -> ids ] : m \in 0..n }

Known(set) == DOMAIN set.slot_lookup

Listed(map) == { map[i] : i \in 1..Len(map) }

\* C16: a discovery whose candidates are all known to the table, in whatever
\* order and whether they are all of the known identities or some of them,
\* leaves the table as it was: the count and the device at every index.  This
\* holds of found_map on every table a step of the program builds and of every
\* refresh that port_count() runs on a browser list of known devices.
C16_DiscoveryIsIdempotent ==
    [][ /\ STATIC'.input_set # STATIC.input_set =>
              \A map \in Lists(Known(STATIC'.input_set), NumInputDevices) :
                  found_map(STATIC'.input_set, map) = STATIC'.input_set
        /\ STATIC'.output_set # STATIC.output_set =>
              \A map \in Lists(Known(STATIC'.output_set), NumOutputDevices) :
                  found_map(STATIC'.output_set, map) = STATIC'.output_set
        /\ (ret'.op = "MidiInput::port_count"
                /\ Listed(midi_inputs) \subseteq Known(STATIC.input_set)) =>
              /\ STATIC'.input_set = STATIC.input_set
              /\ ret'.value = Some(len(STATIC.input_set))
        /\ (ret'.op = "MidiOutput::port_count"
                /\ Listed(midi_outputs) \subseteq Known(STATIC.output_set)) =>
              /\ STATIC'.output_set = STATIC.output_set
              /\ ret'.value = Some(len(STATIC.output_set))
      ]_vars

\* C16 witness: port_count() has refreshed a table that holds device 1 before
\* device 2 from a browser list that holds device 2 before device 1.
C16_Witness ==
    /\ ret.op = "MidiInput::port_count"
    /\ STATIC.input_set.name_lookup = << 1, 2 >>
    /\ midi_inputs = << 2, 1 >>

\* C17: a connect that fails with PortNumberOutOfRange, on an input or an
\* output session, changes nothing but the caller's own handle: no port is
\* asked to open, no handler is registered or replaced, no closure or data cell
\* is made or released, and both tables and the browser's lists are as before.
C17_FailedConnectHasNoEffect ==
    [][ ( /\ ret'.op \in { "MidiInput::connect", "MidiOutput::connect" }
          /\ ret'.kind = "PortNumberOutOfRange" )
        => /\ UNCHANGED << STATIC, midi_inputs, midi_outputs >>
           /\ UNCHANGED << onmidimessage, in_open, out_port, sent >>
           /\ UNCHANGED << closures, user_data >>
           /\ len(STATIC'.input_set) = len(STATIC.input_set)
           /\ len(STATIC'.output_set) = len(STATIC.output_set)
      ]_vars

\* C17 witness: with two input ports in the table and the closure of the first
\* session registered on one of them, connect(2) of the second session has
\* failed and the closure of the first session is still registered.
C17_Witness ==
    /\ ret.op = "MidiInput::connect"
    /\ ret.kind = "PortNumberOutOfRange"
    /\ ret.who = 2
    /\ ret.args[1] = 2
    /\ len(STATIC.input_set) = 2
    /\ in_sess[1].tag = "MidiInputConnection"
    /\ onmidimessage[in_sess[1].input] = in_sess[1].closure
    /\ in_open = { in_sess[1].input }

InputOps ==
    { "MidiInput::port_count", "MidiInput::port_name", "MidiInput::connect",
      "MidiInputConnection::close" }

OutputOps ==
    { "MidiOutput::port_count", "MidiOutput::port_name", "MidiOutput::connect",
      "MidiOutputConnection::send", "MidiOutputConnection::close" }

\* C18: no call on an input session (port_count, port_name, connect, close)
\* changes the output table and no call on the output session (port_count,
\* port_name, connect, send, close) changes the input table.
C18_TablesAreIndependent ==
    [][ /\ ret'.op \in InputOps => STATIC'.output_set = STATIC.output_set
        /\ ret'.op \in OutputOps => STATIC'.input_set = STATIC.input_set
      ]_vars

\* C18 witness: port_count() on the input session has filled the input table
\* while the output table is still empty although the browser lists output
\* devices.
C18_Witness ==
    /\ ret.op = "MidiInput::port_count"
    /\ ret.value = Some(NumInputDevices)
    /\ len(STATIC.input_set) = NumInputDevices
    /\ len(STATIC.output_set) = 0
    /\ Len(midi_outputs) = NumOutputDevices

\* Access is not both granted and pending.
OneAtATime(static) == ~(static.access # None /\ static.request # None)

\* C19: access is never both granted and pending; a request is issued only
\* when access is neither granted nor pending, be it by a step or by a call of
\* request_midi_access in any state the program reaches; the grant and the
\* rejection callback clear the pending request; and access, once granted,
\* stays granted.
C19_AccessSingleton ==
    [][ /\ OneAtATime(STATIC)
        /\ OneAtATime(STATIC')
        /\ STATIC.ever_requested /\ STATIC'.ever_requested
        /\ (STATIC'.request # None /\ STATIC'.request # STATIC.request) =>
              STATIC.access = None /\ STATIC.request = None
        /\ \A platform \in Platforms :
              LET s == request_midi_access(STATIC, platform)
              IN  /\ OneAtATime(s)
                  /\ s.access = STATIC.access
                  /\ s.request # STATIC.request =>
                        STATIC.access = None /\ STATIC.request = None
        /\ on_ok => STATIC'.request = None /\ STATIC'.access # None
        /\ on_err => STATIC'.request = None /\ STATIC'.access = STATIC.access
        /\ STATIC.access # None => STATIC'.access = STATIC.access
      ]_vars

\* C19 witness: the request was granted and cleared, and port_count() on the
\* output session has used the access.
C19_Witness ==
    /\ STATIC.access # None
    /\ STATIC.request = None
    /\ ret.op = "MidiOutput::port_count"
    /\ ret.value = Some(1)

\* C20: as long as access is not granted (pending, rejected or never asked
\* for) a refresh changes nothing, both tables are empty, port_count() returns
\* 0, every port_name and connect returns PortNumberOutOfRange, no session is
\* connected, no port is opened or has a handler, and no callback was invoked.
C20_NothingWithoutAccess ==
    STATIC.access = None =>
        /\ refresh_inputs(STATIC) = STATIC
        /\ refresh_outputs(STATIC) = STATIC
        /\ STATIC.input_set = DeviceSet_new
        /\ STATIC.output_set = DeviceSet_new
        /\ ret.op \in { "MidiInput::port_count", "MidiOutput::port_count" } =>
              ret.value = Some(0)
        /\ ret.op \in { "MidiInput::port_name", "MidiInput::connect",
                        "MidiOutput::port_name", "MidiOutput::connect" } =>
              ret.kind = "PortNumberOutOfRange"
        /\ \A s \in Sessions : in_sess[s].tag = "MidiInput"
        /\ out_sess.tag = "MidiOutput"
        /\ in_open = { }
        /\ \A p \in InputIds : onmidimessage[p] = 0
        /\ \A p \in OutputIds : out_port[p] = "closed"
        /\ \A k \in ClosureIds : ~closures[k].alive /\ invoked[k] = << >>
        /\ delivered = 0

\* C20 witness: the request is over without a grant, the browser lists every
\* input device, and connect(0) has failed with PortNumberOutOfRange.
C20_Witness ==
    /\ STATIC.access = None
    /\ STATIC.request = None
    /\ Len(midi_inputs) = NumInputDevices
    /\ ret.op = "MidiInput::connect"
    /\ ret.kind = "PortNumberOutOfRange"
    /\ ret.args[1] = 0

\* The map from identity to slot and the list from slot to device are inverse
\* to each other and of one size.
Bijection(set) ==
    /\ len(set) = Len(list(set))
    /\ \A i \in 0..(Len(list(set)) - 1) :
          /\ id(at(list(set), i)) \in DOMAIN set.slot_lookup
          /\ set.slot_lookup[id(at(list(set), i))] = i
    /\ \A d \in DOMAIN set.slot_lookup :
          /\ set.slot_lookup[d] \in 0..(Len(list(set)) - 1)
          /\ id(at(list(set), set.slot_lookup[d])) = d
    /\ \A i, j \in 0..(Len(list(set)) - 1) :
          id(at(list(set), i)) = id(at(list(set), j)) => i = j

\* C21: in every reachable state, in the input and in the output table, the
\* map from identity to slot and the list of devices are inverse bijections of
\* equal size: len() is the length of the list, the slot of the device at
\* index i is i, and no identity is listed twice; so every index below len()
\* is an index of the list.
C21_TableBijection ==
    /\ Bijection(STATIC.input_set)
    /\ Bijection(STATIC.output_set)
    /\ \A i \in InputPortNumbers :
          ~(i >= len(STATIC.input_set)) => i + 1 \in DOMAIN list(STATIC.input_set)
    /\ \A i \in OutputPortNumbers :
          ~(i >= len(STATIC.output_set)) => i + 1 \in DOMAIN list(STATIC.output_set)

\* C21 witness: port_name(1) has passed the range check on an input table that
\* holds device 2 in slot 0 and device 1 in slot 1, after device 2 has left the
\* browser's list.
C21_Witness ==
    /\ ret.op = "MidiInput::port_name"
    /\ ret.kind = "Ok"
    /\ ret.args[1] = 1
    /\ STATIC.input_set.name_lookup = << 2, 1 >>
    /\ STATIC.input_set.slot_lookup[2] = 0
    /\ STATIC.input_set.slot_lookup[1] = 1
    /\ midi_inputs = << 1 >>

====
